---- MODULE Spec2Model ----
(***************************************************************************)
(* A model of src/core/utils/seo.js: generateMeta, addUpdateMeta,          *)
(* getMetaKey, getTextFromHtml and trimTillLastSentence.                   *)
(*                                                                         *)
(* JavaScript strings are TLA+ strings (TLC evaluates Len, \o and SubSeq   *)
(* on them).  A JavaScript object is a function from its own keys to       *)
(* their values, so that a key that is absent is not in DOMAIN.  Objects   *)
(* that are shared by reference live in a heap, a sequence of objects, and *)
(* a list of such objects is a sequence of addresses into the heap.        *)
(***************************************************************************)
EXTENDS Integers, Sequences, FiniteSets, TLC

VARIABLES
  config,       \* the process-wide configuration object (config.seo is seoSchema)
  data,         \* generateMeta: the data argument of the last call
  options,      \* generateMeta: the options argument of the last call
  generated,    \* generateMeta: generatedSchema when line 231 is reached
  merged,       \* generateMeta: generatedSchema when line 238 is reached
  result,       \* generateMeta: the list returned by the last call
  outcome,      \* generateMeta: "none", "returned" or "threw"
  first,        \* the arguments and the list of the first call that returned
  heap,         \* addUpdateMeta: the objects its two arguments refer to
  source,       \* addUpdateMeta: the source array, as addresses
  customMetas,  \* addUpdateMeta: the customMetas array, as addresses
  idx,          \* addUpdateMeta: the number of entries _.each has visited
  unmatched,    \* addUpdateMeta: the number of visits that ended in source.push
  str,          \* trimTillLastSentence: the str argument
  length,       \* trimTillLastSentence: the length argument
  trimmed       \* trimTillLastSentence: <<>> before the call, <<returned>> after

vars == <<config, data, options, generated, merged, result, outcome, first,
          heap, source, customMetas, idx, unmatched, str, length, trimmed>>

genVars == <<config, data, options, generated, merged, result, outcome, first>>
addVars == <<heap, source, customMetas, idx, unmatched>>
trimVars == <<str, length, trimmed>>

(***************************************************************************)
(* Bounds of the model.                                                    *)
(***************************************************************************)
\* longest str handed to trimTillLastSentence on its own
MaxStrLen == 4
\* longest source array handed to addUpdateMeta on its own
MaxSource == 2
\* longest customMetas array handed to addUpdateMeta on its own
MaxCustom == 2
\* longest config.seo.meta
MaxConfigMeta == 2
\* longest data.meta
MaxDataMeta == 2

\* the state of the parts of the model a specification does not exercise
GenIdle ==
  /\ config = [seo |-> << >>]
  /\ data = << >>
  /\ options = << >>
  /\ generated = << >>
  /\ merged = << >>
  /\ result = << >>
  /\ outcome = "none"
  /\ first = << >>

AddIdle ==
  /\ heap = << >>
  /\ source = << >>
  /\ customMetas = << >>
  /\ idx = 0
  /\ unmatched = 0

TrimIdle ==
  /\ str = ""
  /\ length = 0
  /\ trimmed = << >>

(***************************************************************************)
(* String.prototype and lodash string helpers.                             *)
(***************************************************************************)
Min(a, b) == IF a < b THEN a ELSE b

\* s.charAt(i), i counted from 0
CharAt(s, i) == SubSeq(s, i + 1, i + 1)

\* s.substr(start, n) for 0 <= start and 0 <= n
Substr(s, start, n) == SubSeq(s, start + 1, Min(Len(s), start + n))

\* s.lastIndexOf(c) for a one-character c: the greatest index, or -1
LastIndexOf(s, c) ==
  LET at == {i \in 0 .. Len(s) - 1 : CharAt(s, i) = c}
  IN  IF at = {} THEN -1 ELSE CHOOSE i \in at : \A j \in at : j <= i

\* the least index from i on of a character of cs, or -1
IndexOfAny(s, cs, i) ==
  LET at == {j \in i .. Len(s) - 1 : CharAt(s, j) \in cs}
  IN  IF at = {} THEN -1 ELSE CHOOSE j \in at : \A k \in at : j <= k

\* the characters String.prototype.trim removes (those the model's strings use)
WhiteSpace == {" ", "\n", "\t", "\r"}

RECURSIVE TrimStart(_)
TrimStart(s) ==
  IF Len(s) > 0 /\ CharAt(s, 0) \in WhiteSpace
  THEN TrimStart(SubSeq(s, 2, Len(s)))
  ELSE s

RECURSIVE TrimEnd(_)
TrimEnd(s) ==
  IF Len(s) > 0 /\ CharAt(s, Len(s) - 1) \in WhiteSpace
  THEN TrimEnd(SubSeq(s, 1, Len(s) - 1))
  ELSE s

\* s.trim()
Trim(s) == TrimEnd(TrimStart(s))

\* _.startsWith(s, p)
StartsWith(s, p) == Len(s) >= Len(p) /\ SubSeq(s, 1, Len(p)) = p

(***************************************************************************)
(* getTextFromHtml (lines 298-300): str.replace(/<(?:.|\n)*?>/gm, "")      *)
(* followed by trim().  The regular expression matches, from the leftmost  *)
(* "<", up to the nearest ">" that is reached over characters "." or "\n"  *)
(* match; "." matches no line terminator, so "\r" stops the match.         *)
(***************************************************************************)
\* the index of the ">" closing a tag whose body starts at i, or -1
TagEnd(s, i) ==
  LET stop == IndexOfAny(s, {">", "\r"}, i)
  IN  IF stop # -1 /\ CharAt(s, stop) = ">" THEN stop ELSE -1

\* s from index i on with every tag removed
RECURSIVE StripTagsFrom(_, _)
StripTagsFrom(s, i) ==
  LET open == IndexOfAny(s, {"<"}, i)
  IN  IF open = -1 THEN SubSeq(s, i + 1, Len(s))
      ELSE IF TagEnd(s, open + 1) # -1
           THEN SubSeq(s, i + 1, open) \o StripTagsFrom(s, TagEnd(s, open + 1) + 1)
           ELSE SubSeq(s, i + 1, open + 1) \o StripTagsFrom(s, open + 1)

getTextFromHtml(s) == Trim(StripTagsFrom(s, 0))

(***************************************************************************)
(* trimTillLastSentence (lines 311-342).                                   *)
(***************************************************************************)
\* line 341, with trimmedString and separator as they are there
CutAtLast(trimmedString, separator) ==
  Trim(Substr(trimmedString, 0,
              Min(Len(trimmedString) - 1, LastIndexOf(trimmedString, separator))))

\* a mutant of trimTillLastSentence: the window is length characters, not length + 1
trimTillLastSentenceShortWindow(s, len) ==
  LET text == getTextFromHtml(s)
      padded == text \o " "
      trimmedString == Substr(padded, 0, len)
  IN  IF len = 0 \/ Len(text) = 0 THEN text
      ELSE IF LastIndexOf(trimmedString, ".") = -1
           THEN IF LastIndexOf(trimmedString, " ") = -1
                THEN Substr(padded, 0, len)
                ELSE CutAtLast(trimmedString, " ")
           ELSE CutAtLast(trimmedString, ".")

trimTillLastSentence(s, len) ==
  LET text == getTextFromHtml(s)
      padded == text \o " "
      trimmedString == Substr(padded, 0, len + 1)
  IN  IF len = 0 \/ Len(text) = 0 THEN text
      ELSE IF LastIndexOf(trimmedString, ".") = -1
           THEN IF LastIndexOf(trimmedString, " ") = -1
                THEN Substr(padded, 0, len)
                ELSE CutAtLast(trimmedString, " ")
           ELSE CutAtLast(trimmedString, ".")

(***************************************************************************)
(* metaKeys (lines 33-37) and getMetaKey (lines 250-258).                  *)
(***************************************************************************)
metaKeys == <<"name", "itemProp", "property">>

\* what getMetaKey returns for `false`; `if (metaKey)` treats both alike
NoMetaKey == ""

\* _.get(meta, key, false) is truthy: the key is present and not ""
Truthy(meta, key) == key \in DOMAIN meta /\ meta[key] # ""

RECURSIVE getMetaKeyIn(_, _, _)
getMetaKeyIn(meta, keys, i) ==
  IF i > Len(keys) THEN NoMetaKey
  ELSE IF Truthy(meta, keys[i]) THEN keys[i]
  ELSE getMetaKeyIn(meta, keys, i + 1)

\* a mutant of getMetaKey: the keys are tried in the order property, itemProp, name
getMetaKeyPropertyFirst(meta) ==
  getMetaKeyIn(meta, <<"property", "itemProp", "name">>, 1)

getMetaKey(meta) == getMetaKeyIn(meta, metaKeys, 1)

(***************************************************************************)
(* addUpdateMeta (lines 266-291).  h is the heap, src the source array and *)
(* a the address of the entry of customMetas that _.each visits.           *)
(***************************************************************************)
\* _.find(source, {[key]: value}): the index of the first match, or 0
RECURSIVE FindFrom(_, _, _, _, _)
FindFrom(h, src, key, value, i) ==
  IF i > Len(src) THEN 0
  ELSE IF key \in DOMAIN h[src[i]] /\ h[src[i]][key] = value THEN i
  ELSE FindFrom(h, src, key, value, i + 1)

Find(h, src, key, value) == FindFrom(h, src, key, value, 1)

\* lines 277-279: _.set(obj, key, value) for every own key of meta
SetAll(obj, meta) ==
  [k \in DOMAIN obj \cup DOMAIN meta |->
     IF k \in DOMAIN meta THEN meta[k] ELSE obj[k]]

\* lines 269-289, one visit of _.each
addUpdateOne(h, src, a) ==
  LET meta == h[a]
      metaKey == getMetaKey(meta)
      found == IF metaKey # NoMetaKey THEN Find(h, src, metaKey, meta[metaKey]) ELSE 0
      metaUpdated == found # 0
  IN  IF metaUpdated
      THEN [heap |-> [h EXCEPT ![src[found]] = SetAll(h[src[found]], meta)],
            source |-> src,
            metaUpdated |-> TRUE]
      ELSE [heap |-> h,
            source |-> Append(src, a),
            metaUpdated |-> FALSE]

\* lines 268-290, the visits from entry i of customs on
RECURSIVE addUpdateFrom(_, _, _, _)
addUpdateFrom(h, src, customs, i) ==
  IF i > Len(customs) THEN [heap |-> h, source |-> src]
  ELSE LET r == addUpdateOne(h, src, customs[i])
       IN  addUpdateFrom(r.heap, r.source, customs, i + 1)

addUpdateMeta(h, src, customs) == addUpdateFrom(h, src, customs, 1)

(***************************************************************************)
(* addUpdateMeta on its own: source and customMetas are arrays of distinct *)
(* objects, and each step is one visit of _.each.                          *)
(***************************************************************************)
MetaPool ==
  { [name |-> "title", content |-> "A"],
    [name |-> "title", content |-> "B", lang |-> "en"],
    [property |-> "og:title", content |-> "A"],
    [name |-> "title", property |-> "og:title", content |-> "C"],
    [name |-> "", itemProp |-> "image", content |-> "B"],
    [custom |-> "x"] }

RECURSIVE ListsUpTo(_, _)
ListsUpTo(S, n) ==
  IF n = 0 THEN {<< >>}
  ELSE LET shorter == ListsUpTo(S, n - 1)
       IN  shorter \cup {Append(l, x) : l \in shorter, x \in S}

AddUpdateVisit ==
  /\ idx < Len(customMetas)
  /\ LET r == addUpdateOne(heap, source, customMetas[idx + 1])
     IN  /\ heap' = r.heap
         /\ source' = r.source
         /\ unmatched' = IF r.metaUpdated THEN unmatched ELSE unmatched + 1
  /\ idx' = idx + 1
  /\ UNCHANGED <<customMetas, genVars, trimVars>>

InitAddUpdate ==
  /\ \E src \in ListsUpTo(MetaPool, MaxSource), customs \in ListsUpTo(MetaPool, MaxCustom) :
       /\ heap = src \o customs
       /\ source = [i \in 1 .. Len(src) |-> i]
       /\ customMetas = [i \in 1 .. Len(customs) |-> Len(src) + i]
  /\ idx = 0
  /\ unmatched = 0
  /\ GenIdle
  /\ TrimIdle

NextAddUpdate == AddUpdateVisit

SpecAddUpdate == InitAddUpdate /\ [][NextAddUpdate]_vars

(***************************************************************************)
(* Objects and lodash helpers used by generateMeta.                        *)
(***************************************************************************)
EmptyObject == << >>

\* _.defaults(object, src): keys of src that object lacks are copied (shallow)
Defaults(object, src) ==
  [k \in DOMAIN object \cup DOMAIN src |->
     IF k \in DOMAIN object THEN object[k] ELSE src[k]]

\* _.get(object, key, default) for a one-step path
Get(object, key, default) == IF key \in DOMAIN object THEN object[key] ELSE default

\* array.join(sep)
RECURSIVE JoinFrom(_, _, _)
JoinFrom(arr, sep, i) ==
  IF i > Len(arr) THEN ""
  ELSE IF i = Len(arr) THEN arr[i]
  ELSE arr[i] \o sep \o JoinFrom(arr, sep, i + 1)

Join(arr, sep) == JoinFrom(arr, sep, 1)

\* _.uniqWith(list, _.isEqual): a value is kept unless an equal one was kept
RECURSIVE uniqWithFrom(_, _, _)
uniqWithFrom(list, i, kept) ==
  IF i > Len(list) THEN kept
  ELSE IF \E j \in 1 .. Len(kept) : kept[j] = list[i]
       THEN uniqWithFrom(list, i + 1, kept)
       ELSE uniqWithFrom(list, i + 1, Append(kept, list[i]))

\* a mutant of uniqWith: a value is dropped only if it equals the one just kept
RECURSIVE uniqAdjacentFrom(_, _, _)
uniqAdjacentFrom(list, i, kept) ==
  IF i > Len(list) THEN kept
  ELSE IF Len(kept) > 0 /\ kept[Len(kept)] = list[i]
       THEN uniqAdjacentFrom(list, i + 1, kept)
       ELSE uniqAdjacentFrom(list, i + 1, Append(kept, list[i]))

uniqWithAdjacentOnly(list) == uniqAdjacentFrom(list, 1, << >>)

uniqWith(list) == uniqWithFrom(list, 1, << >>)

(***************************************************************************)
(* seoSchema (lines 8-27).  A value whose type the code tests carries it:  *)
(* keywords is [string |-> s] or [array |-> a]; a value of type_details is *)
(* [string |-> s] or [object |-> entries]; type_details and such an object *)
(* are sequences of [key, value], in the order _.each visits them.         *)
(***************************************************************************)
SchemaDefaults ==
  [ title |-> "",
    description |-> "",
    keywords |-> [array |-> << >>],
    image |-> "",
    site_name |-> "",
    twitter |-> [site |-> "", creator |-> ""],
    facebook |-> [admins |-> << >>],
    type |-> "article",
    type_details |-> << [key |-> "section", value |-> [string |-> ""]],
                        [key |-> "published_time", value |-> [string |-> ""]],
                        [key |-> "modified_time", value |-> [string |-> ""]] >> ]

\* line 8: _.defaults(_.get(config, "seo", {}), {...}) fills config.seo in place
\* and seoSchema is that same object
seoSchema == IF "seo" \in DOMAIN config THEN config.seo ELSE SchemaDefaults

\* isBrowser() (line 221): the calls modelled are made outside a browser
isBrowser == FALSE

\* _.get(window, "location.href", "") (line 222)
WindowLocationHref == "http://browser.example/page"

\* the lengths of lines 49 and 50
DescriptionLength == 155
TwitterDescriptionLength == 200

\* the default value of the options parameter (line 46), used when it is omitted
NoArgument == [undefined |-> "undefined"]
DefaultOptions == [baseUrl |-> "", url |-> ""]

(***************************************************************************)
(* generateMeta, lines 54-229: the descriptors pushed before custom meta.  *)
(***************************************************************************)
\* a mutant of TitleMeta: the title and og:title descriptors are pushed as one
TitleMetaSharedDescriptor(seoData) ==
  << [name |-> "title", property |-> "og:title", content |-> seoData.title],
     [name |-> "twitter:title", content |-> seoData.title] >>

\* lines 58-70
TitleMeta(seoData) ==
  << [name |-> "title", content |-> seoData.title],
     [name |-> "twitter:title", content |-> seoData.title],
     [property |-> "og:title", content |-> seoData.title] >>

\* lines 75-86
KeywordsMeta(seoData) ==
  (IF "string" \in DOMAIN seoData.keywords /\ Len(Trim(seoData.keywords.string)) > 0
   THEN << [name |-> "keywords", content |-> seoData.keywords.string] >>
   ELSE << >>)
  \o
  (IF "array" \in DOMAIN seoData.keywords /\ Len(seoData.keywords.array) > 0
   THEN << [name |-> "keywords", content |-> Join(seoData.keywords.array, ",")] >>
   ELSE << >>)

\* lines 91-105
TwitterMeta(seoData) ==
  LET twitter == Get(seoData, "twitter", EmptyObject)
      twitterSite == Get(twitter, "site", "")
      twitterCreator == Get(twitter, "creator", "")
  IN  (IF Len(twitterSite) > 0
       THEN << [name |-> "twitter:site", content |-> twitterSite] >> ELSE << >>)
      \o
      (IF Len(twitterCreator) > 0
       THEN << [name |-> "twitter:creator", content |-> twitterCreator] >> ELSE << >>)

\* lines 110-116
FacebookMeta(seoData) ==
  LET fbAdmins == Get(Get(seoData, "facebook", EmptyObject), "admins", << >>)
  IN  IF Len(fbAdmins) > 0
      THEN << [property |-> "fb:admins", content |-> Join(fbAdmins, ",")] >>
      ELSE << >>

\* lines 122-133
DescriptionMeta(seoData) ==
  << [name |-> "description",
      content |-> trimTillLastSentence(seoData.description, DescriptionLength)],
     [name |-> "twitter:description",
      content |-> trimTillLastSentence(seoData.description, TwitterDescriptionLength)],
     [property |-> "og:description", content |-> seoData.description] >>

\* lines 138-143
SiteNameMeta(seoData) ==
  IF Len(seoData.site_name) > 0
  THEN << [property |-> "og:site_name", content |-> seoData.site_name] >>
  ELSE << >>

\* line 52: options.baseUrl.replace(/\/$/, "")
StripTrailingSlash(s) ==
  IF Len(s) > 0 /\ CharAt(s, Len(s) - 1) = "/" THEN Substr(s, 0, Len(s) - 1) ELSE s

\* a mutant of fullImageUrl: a "/" is put before every image that is not absolute
fullImageUrlAlwaysSlash(image, baseUrl) ==
  IF ~StartsWith(image, "http") THEN baseUrl \o "/" \o image ELSE image

\* lines 149-152
fullImageUrl(image, baseUrl) ==
  IF ~StartsWith(image, "http")
  THEN baseUrl \o (IF ~StartsWith(image, "/") THEN "/" ELSE "") \o image
  ELSE image

\* lines 148-171
ImageMeta(seoData, baseUrl) ==
  LET hasImage == Len(seoData.image) > 0
      url == fullImageUrl(seoData.image, baseUrl)
  IN  (IF hasImage
       THEN << [itemProp |-> "image", content |-> url],
               [name |-> "twitter:image:src", content |-> url],
               [property |-> "og:image", content |-> url] >>
       ELSE << >>)
      \o
      << [name |-> "twitter:card",
          content |-> IF hasImage THEN "summary_large_image" ELSE "summary"] >>

\* `${twitterDataCounter}` for the counters the model reaches
CounterText == <<"1", "2", "3", "4", "5", "6", "7", "8", "9">>

\* the three descriptors of lines 186-197 and 203-214
DetailTriple(property, value, label, counter) ==
  << [property |-> property, content |-> value],
     [name |-> "twitter:data" \o CounterText[counter], content |-> value],
     [name |-> "twitter:label" \o CounterText[counter], content |-> label] >>

\* lines 184-200: the sub-entries of an object value, from entry i on
RECURSIVE SubDetailsFrom(_, _, _, _, _)
SubDetailsFrom(prefix, entries, i, list, counter) ==
  IF i > Len(entries) THEN [list |-> list, counter |-> counter]
  ELSE IF entries[i].value # ""
       THEN SubDetailsFrom(prefix, entries, i + 1,
              list \o DetailTriple(prefix \o ":" \o entries[i].key,
                                   entries[i].value, entries[i].key, counter),
              counter + 1)
       ELSE SubDetailsFrom(prefix, entries, i + 1, list, counter)

\* lines 181-218: the entries of type_details, from entry i on
RECURSIVE TypeDetailsFrom(_, _, _, _, _)
TypeDetailsFrom(type, entries, i, list, counter) ==
  IF i > Len(entries) THEN list
  ELSE LET key == entries[i].key
           value == entries[i].value
       IN  IF "object" \in DOMAIN value
           THEN LET sub == SubDetailsFrom(type \o ":" \o key, value.object, 1, list, counter)
                IN  TypeDetailsFrom(type, entries, i + 1, sub.list, sub.counter)
           ELSE IF value.string # ""
                THEN TypeDetailsFrom(type, entries, i + 1,
                       list \o DetailTriple(type \o ":" \o key, value.string, key, counter),
                       counter + 1)
                ELSE TypeDetailsFrom(type, entries, i + 1, list, counter)

\* lines 176-218
TypeMeta(seoData) ==
  << [property |-> "og:type", content |-> seoData.type] >>
  \o TypeDetailsFrom(seoData.type, seoData.type_details, 1, << >>, 1)

\* lines 220-223
ResolveUrl(seoData, opts) ==
  LET url == Get(seoData, "url", Get(opts, "url", ""))
  IN  IF Len(url) = 0 /\ isBrowser THEN WindowLocationHref ELSE url

\* lines 220-229
UrlMeta(seoData, opts) ==
  LET url == ResolveUrl(seoData, opts)
  IN  IF Len(Trim(url)) > 0
      THEN << [property |-> "og:url", content |-> url] >>
      ELSE << >>

\* generatedSchema when line 231 is reached
GeneratedSchema(seoData, opts) ==
  TitleMeta(seoData)
  \o KeywordsMeta(seoData)
  \o TwitterMeta(seoData)
  \o FacebookMeta(seoData)
  \o DescriptionMeta(seoData)
  \o SiteNameMeta(seoData)
  \o ImageMeta(seoData, StripTrailingSlash(opts.baseUrl))
  \o TypeMeta(seoData)
  \o UrlMeta(seoData, opts)

(***************************************************************************)
(* generateMeta (lines 46-241).  The heap of a call holds the entries of   *)
(* config.seo.meta (addresses 1 .. c: they outlive the call), then the     *)
(* descriptors pushed by lines 58-229, then the entries of data.meta.      *)
(***************************************************************************)
\* _.get(config, "seo.meta", []) (line 232)
ConfigMetaList ==
  IF "seo" \in DOMAIN config /\ "meta" \in DOMAIN config.seo THEN config.seo.meta ELSE << >>

Addresses(from, n) == [i \in 1 .. n |-> from + i]

\* lines 231-236: the heap and generatedSchema after both addUpdateMeta calls.
\* Without data.meta, seoData.meta is the array _.defaults took from seoSchema,
\* which is config.seo.meta itself.
CustomMetaApplied(d, gen) ==
  LET c == Len(ConfigMetaList)
      g == Len(gen)
      pageList == Get(d, "meta", << >>)
      configMeta == Addresses(0, c)
      userMeta == IF "meta" \in DOMAIN d
                  THEN Addresses(c + g, Len(pageList))
                  ELSE IF "meta" \in DOMAIN seoSchema THEN configMeta ELSE << >>
      afterConfig == addUpdateMeta(ConfigMetaList \o gen \o pageList,
                                   Addresses(c, g), configMeta)
  IN  addUpdateMeta(afterConfig.heap, afterConfig.source, userMeta)

\* the caller passes its arguments
Call(d, o) ==
  /\ outcome # "called"
  /\ data' = d
  /\ options' = o
  /\ outcome' = "called"
  /\ generated' = << >>
  /\ merged' = << >>
  /\ result' = << >>
  /\ UNCHANGED <<config, first, addVars, trimVars>>

\* the body of generateMeta; options.baseUrl.replace (line 52) throws a
\* TypeError when options has no baseUrl
GenerateMeta ==
  /\ outcome = "called"
  /\ LET opts == IF options = NoArgument THEN DefaultOptions ELSE options
         seoData == Defaults(data, seoSchema)
     IN  IF "baseUrl" \notin DOMAIN opts
         THEN /\ outcome' = "threw"
              /\ UNCHANGED <<config, generated, merged, result>>
         ELSE LET gen == GeneratedSchema(seoData, opts)
                  after == CustomMetaApplied(data, gen)
                  all == [i \in 1 .. Len(after.source) |-> after.heap[after.source[i]]]
              IN  /\ generated' = gen
                  /\ merged' = all
                  /\ result' = uniqWith(all)
                  /\ config' = IF Len(ConfigMetaList) > 0
                               THEN [config EXCEPT !.seo.meta =
                                       [i \in 1 .. Len(ConfigMetaList) |-> after.heap[i]]]
                               ELSE config
                  /\ outcome' = "returned"
  /\ UNCHANGED <<data, options, addVars, trimVars>>

\* the first call that returned is remembered
Remember ==
  first' = IF first = << >> /\ outcome' = "returned"
           THEN << [data |-> data, options |-> options, result |-> result'] >>
           ELSE first

(***************************************************************************)
(* The configurations and the arguments of the calls.                      *)
(***************************************************************************)
ConfigMetaPool ==
  { [name |-> "verify", content |-> "A"],
    [name |-> "title", content |-> "Site"],
    [custom |-> "x"] }

DataMetaPool ==
  { [name |-> "verify", content |-> "B"],
    [name |-> "title", property |-> "og:title", content |-> "C"],
    [itemProp |-> "image", content |-> "z"],
    [custom |-> "x"] }

\* config.seo as the configuration file gives it, before line 8 fills it in
ConfigSeoSet ==
  {[meta |-> l] : l \in ListsUpTo(ConfigMetaPool, MaxConfigMeta)}
  \cup {EmptyObject,
        [title |-> "Site", image |-> "/logo.png", url |-> "http://c.example"]}

Configs ==
  {[seo |-> Defaults(seo, SchemaDefaults)] : seo \in ConfigSeoSet} \cup {EmptyObject}

RECURSIVE Repeat(_, _)
Repeat(s, n) == IF n = 0 THEN "" ELSE s \o Repeat(s, n - 1)

\* 184 characters: a "." at index 149, another at index 179
LongDescription == Repeat("word ", 29) \o "last. " \o Repeat("more ", 5) \o "end. tail"

ImageInputs ==
  {[data |-> d, options |-> o] :
     d \in {EmptyObject} \cup {[image |-> i] : i \in {"", "pic.jpg", "/pic.jpg", "http://y.com/pic.jpg"}},
     o \in {NoArgument, EmptyObject, [url |-> "http://p.example"]}
           \cup {[baseUrl |-> b] : b \in {"", "http://x.com", "http://x.com/", "http://x.com//"}}}

UrlInputs ==
  {[data |-> d, options |-> o] :
     d \in {EmptyObject} \cup {[url |-> u] : u \in {"", " ", "http://d.example"}},
     o \in {NoArgument, [baseUrl |-> ""]}
           \cup {[baseUrl |-> "", url |-> u] : u \in {"", " ", "http://p.example"}}}

MetaInputs ==
  {[data |-> d, options |-> NoArgument] :
     d \in {[meta |-> l] : l \in ListsUpTo(DataMetaPool, MaxDataMeta)}
           \cup {[image |-> "pic.jpg", meta |-> <<e>>] : e \in DataMetaPool}}

FieldData ==
  { [title |-> "Home"],
    [title |-> "Home", description |-> "Hi. Yo"],
    [description |-> "<b>Hello</b> world"],
    [description |-> LongDescription],
    [keywords |-> [string |-> "a,b"]],
    [keywords |-> [string |-> " "]],
    [keywords |-> [array |-> <<"a", "b">>]],
    [site_name |-> "Site"],
    [twitter |-> [site |-> "@s"]],
    [twitter |-> [site |-> "@s", creator |-> "@c"]],
    [twitter |-> EmptyObject],
    [facebook |-> [admins |-> <<"1", "2">>]],
    [facebook |-> EmptyObject],
    [type |-> "product"],
    [type_details |-> << [key |-> "section", value |-> [string |-> "News"]] >>],
    [type |-> "video",
     type_details |-> << [key |-> "section", value |-> [string |-> "News"]],
                         [key |-> "author",
                          value |-> [object |-> << [key |-> "name", value |-> "Ann"],
                                                   [key |-> "url", value |-> ""] >>]],
                         [key |-> "published_time", value |-> [string |-> "2020"]] >>] }

FieldInputs == {[data |-> d, options |-> NoArgument] : d \in FieldData}

Inputs == ImageInputs \cup UrlInputs \cup MetaInputs \cup FieldInputs

Init ==
  /\ config \in Configs
  /\ data = EmptyObject
  /\ options = NoArgument
  /\ generated = << >>
  /\ merged = << >>
  /\ result = << >>
  /\ outcome = "none"
  /\ first = << >>
  /\ AddIdle
  /\ TrimIdle

Next ==
  \/ \E in \in Inputs : Call(in.data, in.options)
  \/ GenerateMeta /\ UNCHANGED first

Spec == Init /\ [][Next]_vars

\* the calls of the specification that remembers the first list returned
RepeatInputs ==
  {[data |-> d, options |-> NoArgument] :
     d \in {EmptyObject, [title |-> "Home"]}
           \cup {[meta |-> l] : l \in ListsUpTo(DataMetaPool, 1)}}

NextRepeat ==
  \/ \E in \in RepeatInputs : Call(in.data, in.options)
  \/ GenerateMeta /\ Remember

SpecRepeat == Init /\ [][NextRepeat]_vars

(***************************************************************************)
(* The strings and lengths trimTillLastSentence is called with.            *)
(***************************************************************************)
Alphabet == {"a", ".", " ", "<", ">", "\n"}

RECURSIVE StringsUpTo(_)
StringsUpTo(n) ==
  IF n = 0 THEN {""}
  ELSE LET shorter == StringsUpTo(n - 1)
       IN  shorter \cup {s \o c : s \in shorter, c \in Alphabet}

TrimStrings == StringsUpTo(MaxStrLen)
TrimLengths == 0 .. (MaxStrLen + 1)

\* a call trimTillLastSentence(str, length)
TrimCall ==
  /\ trimmed = << >>
  /\ trimmed' = <<trimTillLastSentence(str, length)>>
  /\ UNCHANGED <<str, length, genVars, addVars>>

InitTrim ==
  /\ str \in TrimStrings
  /\ length \in TrimLengths
  /\ trimmed = << >>
  /\ GenIdle
  /\ AddIdle

NextTrim == TrimCall

SpecTrim == InitTrim /\ [][NextTrim]_vars

(***************************************************************************)
(* Claims about trimTillLastSentence, checked under SpecTrim.              *)
(***************************************************************************)
\* text: str stripped of HTML tags and surrounding whitespace
TrimText == getTextFromHtml(str)

\* window: the first length + 1 characters of text followed by one space
TrimWindow == SubSeq(TrimText \o " ", 1, Min(Len(TrimText) + 1, length + 1))

HasChar(w, c) == \E i \in 1 .. Len(w) : SubSeq(w, i, i) = c

\* the position (from 1) of the last c of w
LastPos(w, c) ==
  CHOOSE i \in 1 .. Len(w) :
    /\ SubSeq(w, i, i) = c
    /\ \A j \in (i + 1) .. Len(w) : SubSeq(w, j, j) # c

\* the part of text before the last c of the window
TextBeforeLast(c) == SubSeq(TrimText, 1, LastPos(TrimWindow, c) - 1)

\* s with its trailing whitespace removed
WithoutTrailingSpace(s) ==
  LET n == CHOOSE k \in 0 .. Len(s) :
             /\ k = 0 \/ SubSeq(s, k, k) \notin WhiteSpace
             /\ \A m \in (k + 1) .. Len(s) : SubSeq(s, m, m) \in WhiteSpace
  IN  SubSeq(s, 1, n)

IsPrefixOf(p, s) == Len(p) <= Len(s) /\ SubSeq(s, 1, Len(p)) = p

\* C8: for length > 0 the result is the text before the last "." of the
\* window, else before the last space of the window, both with trailing
\* whitespace removed, else the first length characters of text; it is a
\* prefix of text of at most length characters; for length 0 it is text.
C8_TrimResult ==
  trimmed # << >> =>
    LET r == trimmed[1]
    IN  /\ length = 0 => r = TrimText
        /\ length > 0 =>
              /\ r = IF HasChar(TrimWindow, ".")
                     THEN WithoutTrailingSpace(TextBeforeLast("."))
                     ELSE IF HasChar(TrimWindow, " ")
                          THEN WithoutTrailingSpace(TextBeforeLast(" "))
                          ELSE SubSeq(TrimText, 1, length)
              /\ IsPrefixOf(r, TrimText)
              /\ Len(r) <= length

\* a call that cut a text longer than length at a "." inside the window
C8_Witness ==
  /\ trimmed # << >>
  /\ length > 0
  /\ Len(TrimText) > length
  /\ HasChar(TrimWindow, ".")
  /\ trimmed[1] # ""
  /\ trimmed[1] # TrimText

IdentifyingKey(meta) ==
  IF "name" \in DOMAIN meta /\ meta.name # "" THEN "name"
  ELSE IF "itemProp" \in DOMAIN meta /\ meta.itemProp # "" THEN "itemProp"
  ELSE IF "property" \in DOMAIN meta /\ meta.property # "" THEN "property"
  ELSE "none"

\* the positions of source whose descriptor equals meta at key
MatchesOf(meta, key) ==
  {i \in 1 .. Len(source) :
     key \in DOMAIN heap[source[i]] /\ heap[source[i]][key] = meta[key]}

\* what one visit does, as the claim states it
VisitAsClaimed ==
  LET a == customMetas[idx + 1]
      meta == heap[a]
      key == IdentifyingKey(meta)
      matches == IF key = "none" THEN {} ELSE MatchesOf(meta, key)
  IN  IF matches # {}
      THEN LET i == CHOOSE m \in matches : \A n \in matches : m <= n
           IN  /\ \A k \in DOMAIN meta :
                    k \in DOMAIN heap'[source[i]] /\ heap'[source[i]][k] = meta[k]
               /\ source' = source
               /\ \A j \in 1 .. Len(source) : j # i => heap'[source[j]] = heap[source[j]]
               /\ unmatched' = unmatched
      ELSE /\ source' = Append(source, a)
           /\ heap'[a] = meta
           /\ \A j \in 1 .. Len(source) : heap'[source[j]] = heap[source[j]]
           /\ unmatched' = unmatched + 1

MetaKeySet == {"name", "property", "itemProp"}

ExactlyOneKey(d) == Cardinality(DOMAIN d \cap MetaKeySet) = 1

AllOneKey(list) == \A i \in 1 .. Len(list) : ExactlyOneKey(list[i])

C2_ConfigUnchanged == [][config' = config]_vars

\* C3: a call given the data and options of the first call returns the list
\* the first call returned, whatever calls were made in between.
C3_EqualArgumentsEqualLists ==
  (outcome = "returned" /\ first # << >>
     /\ data = first[1].data /\ options = first[1].options)
    => result = first[1].result

\* the merged seoData.url and options.url, "" when absent
SeoDataUrl == Get(Defaults(data, seoSchema), "url", "")
OptionsUrl == IF options = NoArgument THEN "" ELSE Get(options, "url", "")

\* the positions of generated whose descriptor has value at key
GeneratedWith(key, value) ==
  {i \in 1 .. Len(generated) :
     key \in DOMAIN generated[i] /\ generated[i][key] = value}

\* C4: the url is seoData.url if non-empty, otherwise options.url: with
\* seoData.url absent or "" and options.url non-empty after trimming, og:url
\* is generated with options.url; with both empty no og:url is generated.
C4_UrlResolution ==
  outcome = "returned" =>
    /\ (SeoDataUrl = "" /\ Trim(OptionsUrl) # "") =>
         \E i \in GeneratedWith("property", "og:url") : generated[i].content = OptionsUrl
    /\ (SeoDataUrl = "" /\ OptionsUrl = "") => GeneratedWith("property", "og:url") = {}
    /\ Trim(SeoDataUrl) # "" =>
         \E i \in GeneratedWith("property", "og:url") : generated[i].content = SeoDataUrl

\* C5: a call with well-formed data and options returns and raises no error.
C5_NeverFails == outcome # "threw"

\* the positions of merged that hold the first occurrence of their descriptor
FirstOccurrences ==
  {i \in 1 .. Len(merged) : \A j \in 1 .. (i - 1) : merged[j] # merged[i]}

\* C6: the returned list holds no two equal descriptors, and it is the list
\* before deduplication cut down to its first occurrences, in their order.
C6_Deduplicated ==
  outcome = "returned" =>
    /\ \A i, j \in 1 .. Len(result) : i # j => result[i] # result[j]
    /\ Len(result) = Cardinality(FirstOccurrences)
    /\ \A k \in 1 .. Len(result) :
         \E i \in FirstOccurrences :
           /\ Cardinality({j \in FirstOccurrences : j <= i}) = k
           /\ result[k] = merged[i]

\* a call whose list held an equal descriptor twice, not side by side
C6_Witness ==
  /\ outcome = "returned"
  /\ Len(result) < Len(merged)
  /\ \E i, j \in 1 .. Len(merged) : j > i + 1 /\ merged[i] = merged[j] /\ merged[i + 1] # merged[i]

\* the merged seoData.image and options.baseUrl of the last call
SeoDataImage == Defaults(data, seoSchema).image
OptionsBaseUrl == IF options = NoArgument THEN "" ELSE options.baseUrl

\* the resolved URL as C9 states it
ExpectedImageUrl ==
  LET base == IF OptionsBaseUrl # "" /\ SubSeq(OptionsBaseUrl, Len(OptionsBaseUrl), Len(OptionsBaseUrl)) = "/"
              THEN SubSeq(OptionsBaseUrl, 1, Len(OptionsBaseUrl) - 1)
              ELSE OptionsBaseUrl
  IN  IF Len(SeoDataImage) >= 4 /\ SubSeq(SeoDataImage, 1, 4) = "http"
      THEN SeoDataImage
      ELSE IF SubSeq(SeoDataImage, 1, 1) = "/"
           THEN base \o SeoDataImage
           ELSE base \o "/" \o SeoDataImage

ImageDescriptorKeys ==
  { <<"itemProp", "image">>, <<"name", "twitter:image:src">>, <<"property", "og:image">> }

\* C9: with a non-empty image the three image descriptors carry the resolved
\* URL; twitter:card is summary_large_image exactly when they are generated.
C9_ImageUrl ==
  outcome = "returned" =>
    /\ SeoDataImage # "" =>
         \A kv \in ImageDescriptorKeys :
           /\ GeneratedWith(kv[1], kv[2]) # {}
           /\ \A i \in GeneratedWith(kv[1], kv[2]) : generated[i].content = ExpectedImageUrl
    /\ GeneratedWith("name", "twitter:card") # {}
    /\ \A i \in GeneratedWith("name", "twitter:card") :
         generated[i].content =
           IF \A kv \in ImageDescriptorKeys : GeneratedWith(kv[1], kv[2]) # {}
           THEN "summary_large_image" ELSE "summary"

\* a call with a relative image and a baseUrl that ends in "/"
C9_Witness ==
  /\ outcome = "returned"
  /\ SeoDataImage = "pic.jpg"
  /\ options # NoArgument
  /\ options.baseUrl = "http://x.com/"
  /\ GeneratedWith("property", "og:image") # {}

====
